---- MODULE Spec2Model ----
(***************************************************************************)
(* Model of the debugWIRE port driver DwPort.c: the USB transport with its *)
(* retry loops, clock recovery, the outbound byte pipeline, the command    *)
(* encoder and the session operations built on them.                       *)
(*                                                                         *)
(* The program is sequential.  Every C function is an operator that maps   *)
(* a session record (the global variables plus the observation logs) to    *)
(* the session record after the call; every public operation is one action *)
(* that applies its operator to the current state.  The adapter and the    *)
(* target are the environment: an action draws the adapter's disposition   *)
(* for the duration of the call from the set Adapters.                     *)
(***************************************************************************)
EXTENDS Integers, Sequences, FiniteSets, TLC

VARIABLES
  Port,            \* USB handle: 0 = null, 1 = open
  OutBufBytes,     \* char OutBufBytes[128], indexed 0..127
  OutBufLength,    \* int OutBufLength
  R,               \* u8 R[32], the shadow register file
  PC,              \* int PC (byte address)
  BP,              \* int BP (byte address, negative: none)
  TimerEnable,     \* int TimerEnable (boolean)
  cyclesPerPulse,  \* static uint32_t cyclesPerPulse
  device,          \* characteristics of the connected part
  halt,            \* "" while the process runs, else the fatal outcome
  overflow,        \* a memcpy wrote past OutBufBytes[127]
  op,              \* the last public operation, its arguments, the globals at its entry
  res,             \* what the last operation returned / wrote to its buffer
  usb,             \* every usb_control_msg of the last operation, in order, with
                   \* the function calling it and its loop counters at the call
                   \* (and the payload of the one that sets the bit time)
  xfers,           \* the byte transports of the last operation that were delivered
  reads,           \* the bulk data-area reads the last operation issued
  emit,            \* the bytes passed to DwSend during the last operation
  sentAll,         \* all bytes passed to DwSend since start
  wireAll,         \* all payload bytes of delivered byte transports since start
  nops             \* number of public operations performed

vars == <<Port, OutBufBytes, OutBufLength, R, PC, BP, TimerEnable, cyclesPerPulse,
          device, halt, overflow, op, res, usb, xfers, reads, emit, sentAll,
          wireAll, nops>>

(***************************************************************************)
(* Bounds of the exploration.                                              *)
(***************************************************************************)
MaxOps == 2

(***************************************************************************)
(* Program constants.                                                      *)
(***************************************************************************)
BufSize         == 128   \* sizeof(OutBufBytes)
SendTries       == 50    \* dwUSBSendBytes retry budget
ReceiveTries    == 50    \* DwReceive retry budget
BaudTries       == 5     \* SetDwireBaud read-back budget
BreakTries      == 25    \* DwBreakAndSync attempts
MinPulseBytes   == 18    \* SetDwireBaud: at least 9 samples
TimesBytes      == 128   \* sizeof(uint16_t times[64])
ReceiveMax      == 128   \* Assert(inlen <= 128)

ModeBreak   == 33
ModeTiming  == 2
ModeSend    == 4
ModeRead    == 20   \* 0x14
ModeSync    == 36   \* 0x24
ModeWait    == 12   \* 0x0C
ByteModes   == {ModeSend, ModeRead, ModeSync, ModeWait}

(***************************************************************************)
(* C integer arithmetic.                                                   *)
(***************************************************************************)
Min(a, b) == IF a < b THEN a ELSE b
Max(a, b) == IF a > b THEN a ELSE b

U8(x)  == x % 256
U16(x) == x % 65536

\* C division and remainder truncate toward zero.
CDiv(a, b) == IF a >= 0 THEN a \div b ELSE -((-a) \div b)
CRem(a, b) == a - b * CDiv(a, b)

RECURSIVE BitAnd(_, _)
BitAnd(a, b) ==
  IF a = 0 \/ b = 0 THEN 0
  ELSE (IF a % 2 = 1 /\ b % 2 = 1 THEN 1 ELSE 0) + 2 * BitAnd(a \div 2, b \div 2)

RECURSIVE BitOr(_, _)
BitOr(a, b) ==
  IF a = 0 THEN b
  ELSE IF b = 0 THEN a
  ELSE (IF a % 2 = 1 \/ b % 2 = 1 THEN 1 ELSE 0) + 2 * BitOr(a \div 2, b \div 2)

RECURSIVE Pow2(_)
Pow2(n) == IF n = 0 THEN 1 ELSE 2 * Pow2(n - 1)

Shl(a, n) == a * Pow2(n)
Shr(a, n) == a \div Pow2(n)

hi(w) == BitAnd(Shr(w, 8), 255)
lo(w) == BitAnd(w, 255)

RECURSIVE SumSeq(_)
SumSeq(q) == IF q = <<>> THEN 0 ELSE Head(q) + SumSeq(Tail(q))

(***************************************************************************)
(* Environment: the device characteristics table, the adapter, the target. *)
(***************************************************************************)
\* Characteristics[DeviceType]: flash size and the I/O address of DWDR.
Characteristics ==
  { [name |-> "ATtiny45",   flashSize |-> 4096,  DWDR |-> 34],
    [name |-> "ATmega328P", flashSize |-> 32768, DWDR |-> 49] }

FlashSize(s) == s.device.flashSize
DWDRreg(s)   == s.device.DWDR
DWDRaddr(s)  == s.device.DWDR + 32

\* The byte the target holds at a data-space address.
TargetMem(a) == (a * 7 + 3) % 256

\* The live values of the target's registers r0..r31 when halted.
TargetReg(r) == (200 + r) % 256

\* The 16-bit pulse samples the adapter captured, as the bytes it returns.
RECURSIVE PulseBytes(_)
PulseBytes(samples) ==
  IF samples = <<>> THEN <<>>
  ELSE <<Head(samples) % 256, Head(samples) \div 256>> \o PulseBytes(Tail(samples))

NinePulses == [i \in 1..9 |-> 82]

\* An adapter disposition: how the adapter answers during one operation.
\*   open      - usbOpenDevice finds the device
\*   outFail   - this many of the next OUT transfers return failStatus
\*   inFail    - this many of the next IN transfers return failStatus
\*   failStatus- the status of a failed transfer (0 busy, -1 error)
\*   outShort  - an accepted OUT transfer takes one byte fewer than offered
\*   inShort   - an answered IN transfer returns this many bytes fewer
\*   pulses    - the pulse samples captured after a break or sync
\*   timingFail- the OUT transfer that sets the bit time returns -1
\*   nullUse   - what usb_control_msg does when handed the null handle
\*               (undefined in C): "error" returns -1, "crash" ends the process
Good == [open |-> TRUE, outFail |-> 0, inFail |-> 0, failStatus |-> 0,
         outShort |-> FALSE, inShort |-> 0, pulses |-> NinePulses,
         timingFail |-> FALSE, nullUse |-> "error"]

AlwaysFail == 100000

Adapters ==
  { Good,
    \* the null handle is dereferenced
    [Good EXCEPT !.nullUse = "crash"],
    \* not to be found when opened; once open, answers reads one byte short
    [Good EXCEPT !.open = FALSE, !.inShort = 1],
    \* fails 50 OUT transfers, then accepts
    [Good EXCEPT !.outFail = SendTries, !.failStatus = -1],
    \* fails every OUT transfer
    [Good EXCEPT !.outFail = AlwaysFail, !.failStatus = -1],
    \* busy on every OUT transfer
    [Good EXCEPT !.outFail = AlwaysFail],
    \* takes one byte fewer than offered
    [Good EXCEPT !.outShort = TRUE],
    \* fails 49 IN transfers, then answers
    [Good EXCEPT !.inFail = ReceiveTries - 1, !.failStatus = -1],
    \* fails every IN transfer
    [Good EXCEPT !.inFail = AlwaysFail, !.failStatus = -1] }

(***************************************************************************)
(* The session record threaded through the C functions.                    *)
(*                                                                         *)
(* Then(v, F) is F applied to the value of v: it sequences the statements  *)
(* of a function body, each intermediate session being computed once.      *)
(***************************************************************************)
Then(v, F(_)) == CHOOSE r \in {F(w) : w \in {v}} : TRUE

\* Body(_) applied n times.  A loop that runs at most n times is its guarded
\* body (the identity once the guard is false) applied n times.
RECURSIVE Iterate(_, _, _)
Iterate(Body(_), s, n) ==
  IF n = 0 THEN s
  ELSE IF n = 1 THEN Body(s)
  ELSE Then(Iterate(Body, s, n \div 2), LAMBDA s1 : Iterate(Body, s1, n - n \div 2))

Running(s) == s.halt = ""

\* Fail(msg): abort the process with a diagnostic.
Fail(s, msg) == IF Running(s) THEN [s EXCEPT !.halt = msg] ELSE s

\* void PortFail(char *msg) {usb_close(Port); Port = 0; Fail(msg);}
PortFail(s, msg) ==
  IF Running(s) THEN Then([s EXCEPT !.Port = 0], LAMBDA s1 : Fail(s1, msg)) ELSE s

\* The status of an OUT transfer of outlen bytes in mode value on handle port.
OutStatus(a, port, value, outlen) ==
  IF port = 0 THEN -1
  ELSE IF a.outFail > 0 THEN a.failStatus
  ELSE IF a.timingFail /\ value = ModeTiming THEN -1
  ELSE IF a.outShort /\ outlen > 0 THEN outlen - 1
  ELSE outlen

\* usb_control_msg(Port, OUT_TO_LW, 60, value, 0, out, outlen, USB_TIMEOUT)
UsbOut(s, value, out) ==
  IF ~Running(s) THEN s
  ELSE IF s.Port = 0 /\ s.adapter.nullUse = "crash" THEN Fail(s, "Crashed")
  ELSE Then(OutStatus(s.adapter, s.Port, value, Len(out)), LAMBDA st :
         [s EXCEPT !.adapter.outFail = IF @ > 0 THEN @ - 1 ELSE 0,
                   !.status = st,
                   !.usb = Append(@, [dir |-> "OUT", value |-> value,
                                      len |-> Len(out), status |-> st,
                                      data |-> IF value = ModeTiming THEN out ELSE <<>>,
                                      port |-> s.Port, who |-> s.who,
                                      tries |-> s.tries, breaks |-> s.breaks])])

\* The status of an IN transfer of inlen bytes on handle port when the
\* adapter holds reply.
InStatus(a, port, inlen, reply) ==
  IF port = 0 THEN -1
  ELSE IF a.inFail > 0 THEN a.failStatus
  ELSE Min(inlen, Max(0, Len(reply) - a.inShort))

\* usb_control_msg(Port, IN_FROM_LW, 60, 0, 0, in, inlen, USB_TIMEOUT):
\* reply is what the adapter holds; the first status bytes of it are stored.
UsbIn(s, inlen, reply) ==
  IF ~Running(s) THEN s
  ELSE IF s.Port = 0 /\ s.adapter.nullUse = "crash" THEN Fail(s, "Crashed")
  ELSE Then(InStatus(s.adapter, s.Port, inlen, reply), LAMBDA st :
         [s EXCEPT !.adapter.inFail = IF @ > 0 THEN @ - 1 ELSE 0,
                   !.status = st,
                   !.rx = IF st > 0 THEN SubSeq(reply, 1, st) ELSE <<>>,
                   !.usb = Append(@, [dir |-> "IN", value |-> 0,
                                      len |-> inlen, status |-> st, data |-> <<>>,
                                      port |-> s.Port, who |-> s.who,
                                      tries |-> s.tries, breaks |-> s.breaks])])

(***************************************************************************)
(* Clock recovery.                                                         *)
(***************************************************************************)
\* while ((tries < 5) && (status <= 0)) {tries++; delay(20); status = usb_control_msg(...);}
SetDwireBaudRead(s, captured) ==
  IF Running(s) /\ s.tries < BaudTries /\ s.status <= 0
  THEN UsbIn([s EXCEPT !.tries = @ + 1, !.who = "SetDwireBaud"], TimesBytes, captured)
  ELSE s

\* times[i] as read back, 16-bit little-endian, i from 0.
TimesAt(rx, i) == rx[2 * i + 1] + 256 * rx[2 * i + 2]

\* cyclesPerPulse from the bytes read back, status of them.
\* uint32_t arithmetic: nine 16-bit samples sum to at most 589815 and
\* 6 * 589815 + 8 < 2^32, so no step of it wraps.
CyclesPerPulse(rx, status) ==
  LET measurementCount == status \div 2
  IN Then(SumSeq([k \in 1..9 |-> TimesAt(rx, measurementCount - 9 + k - 1)]),
          LAMBDA sum : (6 * sum) \div 9 + 8)

\* times[0] = (cyclesPerPulse-8)/4, stored into a uint16_t
DwBitTime(cpp) == U16((cpp - 8) \div 4)

\* int SetDwireBaud(): s.ret is the value returned.
SetDwireBaud(s) ==
  IF ~Running(s) THEN s
  ELSE
    Then(PulseBytes(s.adapter.pulses), LAMBDA captured :
    Then(Iterate(LAMBDA v : SetDwireBaudRead(v, captured),
                 [s EXCEPT !.tries = 0, !.status = 0], BaudTries), LAMBDA s1 :
      IF ~Running(s1) THEN s1
      ELSE IF s1.status < MinPulseBytes THEN [s1 EXCEPT !.ret = 0]
      ELSE
        Then(CyclesPerPulse(s1.rx, s1.status), LAMBDA cpp :
        Then(DwBitTime(cpp), LAMBDA bt :
        Then(UsbOut([s1 EXCEPT !.cyclesPerPulse = cpp, !.who = "SetDwireBaud"], ModeTiming,
                    <<bt % 256, bt \div 256>>), LAMBDA s2 :
          IF s2.status < 0 THEN PortFail(s2, "BaudFailed")
          ELSE [s2 EXCEPT !.ret = 1])))))

\* A pass that goes on to the next attempt although the clock was recovered.
DwBreakAndSyncPassOn(s) ==
  IF Running(s) /\ ~s.synced /\ s.breaks < BreakTries
  THEN Then(UsbOut([s EXCEPT !.who = "DwBreakAndSync"], ModeBreak, <<>>), LAMBDA s1 :
       Then(IF s1.status >= 0 THEN SetDwireBaud(s1) ELSE [s1 EXCEPT !.ret = 0],
            LAMBDA s2 :
         IF ~Running(s2) THEN s2
         ELSE [s2 EXCEPT !.breaks = @ + 1]))
  ELSE s

\* One pass of for (int tries=0; tries<25; tries++) {...}: s.breaks is its
\* tries, s.synced says that the loop was left by return.
DwBreakAndSyncPass(s) ==
  IF Running(s) /\ ~s.synced /\ s.breaks < BreakTries
  THEN Then(UsbOut([s EXCEPT !.who = "DwBreakAndSync"], ModeBreak, <<>>), LAMBDA s1 :
       Then(IF s1.status >= 0 THEN SetDwireBaud(s1) ELSE [s1 EXCEPT !.ret = 0],
            LAMBDA s2 :
         IF ~Running(s2) THEN s2
         ELSE IF s2.ret = 1 THEN [s2 EXCEPT !.synced = TRUE]
         ELSE [s2 EXCEPT !.breaks = @ + 1]))
  ELSE s

\* Wd(16500000 / cyclesPerPulse, 1): the baud rate reported on connection.
ReportedBaud(cpp) == 16500000 \div cpp

\* void DwBreakAndSync()
DwBreakAndSync(s) ==
  IF ~Running(s) THEN s
  ELSE Then(Iterate(DwBreakAndSyncPass, [s EXCEPT !.breaks = 0, !.synced = FALSE],
                    BreakTries), LAMBDA s1 :
         IF ~Running(s1) \/ s1.synced THEN s1
         ELSE PortFail(s1, "SyncFailed"))

\* void ConnectPort()
ConnectPort(s) ==
  IF ~Running(s) THEN s
  ELSE Then(IF s.adapter.open THEN [s EXCEPT !.Port = 1] ELSE s, LAMBDA s1 :
         IF s1.Port = 0 THEN Fail(s1, "NoDevice")
         ELSE DwBreakAndSync(s1))

\* int dwReachedBreakpoint(): s.ret is the value returned.  reply is what the
\* adapter holds; garbage is what dwBuf[0] holds before the call (dwBuf is
\* not initialised), and still holds when the transfer stores nothing.
dwReachedBreakpoint(s, reply, garbage) ==
  IF ~Running(s) THEN s
  ELSE Then(UsbIn([s EXCEPT !.who = "dwReachedBreakpoint"], 10, reply), LAMBDA s1 :
         IF ~Running(s1) THEN s1
         ELSE Then(IF s1.status > 0 THEN s1.rx[1] ELSE garbage, LAMBDA dwBuf0 :
                [s1 EXCEPT !.ret = IF s1.status >= 0 /\ dwBuf0 # 0 THEN 1 ELSE 0]))

(***************************************************************************)
(* Byte pipeline.                                                          *)
(***************************************************************************)
\* while ((tries < 50) && (status <= 0)) {tries++; delay(20); status = usb_control_msg(...);}
dwUSBSendBytesRetry(s, state, out) ==
  IF Running(s) /\ s.tries < SendTries /\ s.status <= 0
  THEN UsbOut([s EXCEPT !.tries = @ + 1, !.who = "dwUSBSendBytes"], state, out)
  ELSE s

\* void dwUSBSendBytes(u8 state, char *out, int outlen)
dwUSBSendBytes(s, state, out) ==
  IF ~Running(s) THEN s
  ELSE
    Then(IF s.Port = 0 THEN ConnectPort(s) ELSE s, LAMBDA s0 :
    Then(UsbOut([s0 EXCEPT !.tries = 0, !.who = "dwUSBSendBytes"], state, out), LAMBDA s1 :
    Then(Iterate(LAMBDA v : dwUSBSendBytesRetry(v, state, out), s1, SendTries),
         LAMBDA s2 :
      IF ~Running(s2) THEN s2
      ELSE IF s2.status < Len(out) THEN PortFail(s2, "TransportFailed")
      ELSE [s2 EXCEPT !.xfers = Append(@, [state |-> state, out |-> out]),
                      !.wireAll = @ \o out])))

\* The first n bytes of OutBufBytes, as the sequence handed to the transport.
BufPrefix(s, n) == [i \in 1..n |-> s.OutBufBytes[i - 1]]

\* memcpy(OutBufBytes + at, src, Len(src))
BufCopy(s, at, src) ==
  [s EXCEPT !.OutBufBytes = [i \in 0..(BufSize - 1) |->
                               IF i >= at /\ i < at + Len(src)
                               THEN src[i - at + 1] ELSE @[i]],
            !.overflow = @ \/ (at + Len(src) > BufSize)]

\* A flush that leaves OutBufLength as it was: the bytes already handed over
\* stay in the buffer and go out again with the next flush.
dwBufferFlushKeep(s, state) ==
  IF ~Running(s) THEN s
  ELSE IF s.OutBufLength > 0
  THEN Then(BufPrefix(s, s.OutBufLength), LAMBDA out :
         dwUSBSendBytes(s, state, out))
  ELSE s

\* A flush without the OutBufLength > 0 test.
dwBufferFlushAlways(s, state) ==
  IF ~Running(s) THEN s
  ELSE Then(BufPrefix(s, s.OutBufLength), LAMBDA out :
       Then(dwUSBSendBytes(s, state, out), LAMBDA s1 :
         IF Running(s1) THEN [s1 EXCEPT !.OutBufLength = 0] ELSE s1))

\* void dwBufferFlush(u8 state)
dwBufferFlush(s, state) ==
  IF ~Running(s) THEN s
  ELSE IF s.OutBufLength > 0
  THEN Then(BufPrefix(s, s.OutBufLength), LAMBDA out :
       Then(dwUSBSendBytes(s, state, out), LAMBDA s1 :
         IF Running(s1) THEN [s1 EXCEPT !.OutBufLength = 0] ELSE s1))
  ELSE s

\* A DwSend that appends without the chunking loop.
DwSendBodyNoChunk(s, out) ==
  IF ~Running(s) THEN s
  ELSE Then(BufCopy(s, s.OutBufLength, out), LAMBDA s1 :
         [s1 EXCEPT !.OutBufLength = @ + Len(out)])

\* A DwSend whose loop also runs when the bytes exactly fill the buffer.
RECURSIVE DwSendBodyEager(_, _)
DwSendBodyEager(s, out) ==
  IF ~Running(s) THEN s
  ELSE IF s.OutBufLength + Len(out) >= BufSize
  THEN LET lenToCopy == BufSize - s.OutBufLength
       IN Then(BufCopy(s, s.OutBufLength, SubSeq(out, 1, lenToCopy)), LAMBDA s1 :
          Then(BufPrefix(s1, BufSize), LAMBDA full :
          Then(dwUSBSendBytes(s1, ModeSend, full), LAMBDA s2 :
          Then(IF Running(s2) THEN [s2 EXCEPT !.OutBufLength = 0] ELSE s2, LAMBDA s3 :
          Then(SubSeq(out, lenToCopy + 1, Len(out)), LAMBDA rest :
            DwSendBodyEager(s3, rest))))))
  ELSE Then(BufCopy(s, s.OutBufLength, out), LAMBDA s1 :
         [s1 EXCEPT !.OutBufLength = @ + Len(out)])

\* A DwSend whose loop hands full buffers over in the read mode 0x14.
RECURSIVE DwSendBodyRead(_, _)
DwSendBodyRead(s, out) ==
  IF ~Running(s) THEN s
  ELSE IF s.OutBufLength + Len(out) > BufSize
  THEN LET lenToCopy == BufSize - s.OutBufLength
       IN Then(BufCopy(s, s.OutBufLength, SubSeq(out, 1, lenToCopy)), LAMBDA s1 :
          Then(BufPrefix(s1, BufSize), LAMBDA full :
          Then(dwUSBSendBytes(s1, ModeRead, full), LAMBDA s2 :
          Then(IF Running(s2) THEN [s2 EXCEPT !.OutBufLength = 0] ELSE s2, LAMBDA s3 :
          Then(SubSeq(out, lenToCopy + 1, Len(out)), LAMBDA rest :
            DwSendBodyRead(s3, rest))))))
  ELSE Then(BufCopy(s, s.OutBufLength, out), LAMBDA s1 :
         [s1 EXCEPT !.OutBufLength = @ + Len(out)])

\* The body of DwSend on the bytes still to be taken.
RECURSIVE DwSendBody(_, _)
DwSendBody(s, out) ==
  IF ~Running(s) THEN s
  ELSE IF s.OutBufLength + Len(out) > BufSize
  THEN LET lenToCopy == BufSize - s.OutBufLength
       IN Then(BufCopy(s, s.OutBufLength, SubSeq(out, 1, lenToCopy)), LAMBDA s1 :
          Then(BufPrefix(s1, BufSize), LAMBDA full :
          Then(dwUSBSendBytes(s1, ModeSend, full), LAMBDA s2 :
          Then(IF Running(s2) THEN [s2 EXCEPT !.OutBufLength = 0] ELSE s2, LAMBDA s3 :
          Then(SubSeq(out, lenToCopy + 1, Len(out)), LAMBDA rest :
            DwSendBody(s3, rest))))))
  ELSE IF ~(s.OutBufLength + Len(out) <= BufSize) THEN Fail(s, "AssertFailed")
  ELSE Then(BufCopy(s, s.OutBufLength, out), LAMBDA s1 :
         [s1 EXCEPT !.OutBufLength = @ + Len(out)])

\* void DwSend(const u8 *out, int outlen)
DwSend(s, out) ==
  IF ~Running(s) THEN s
  ELSE Then([s EXCEPT !.emit = @ \o out, !.sentAll = @ \o out], LAMBDA s1 :
         DwSendBody(s1, out))

\* void DwFlush()
DwFlush(s) == dwBufferFlush(s, ModeRead)

\* A read loop that goes on for all its attempts whatever the status.
DwReceiveReadOn(s, inlen, reply) ==
  IF Running(s) /\ s.tries < ReceiveTries
  THEN UsbIn([s EXCEPT !.tries = @ + 1, !.who = "DwReceive"], inlen, reply)
  ELSE s

\* while ((tries < 50) && (status <= 0)) {tries++; delay(20); status = usb_control_msg(...);}
DwReceiveRead(s, inlen, reply) ==
  IF Running(s) /\ s.tries < ReceiveTries /\ s.status <= 0
  THEN UsbIn([s EXCEPT !.tries = @ + 1, !.who = "DwReceive"], inlen, reply)
  ELSE s

\* int DwReceive(u8 *in, int inlen): s.status is the value returned, s.rx the
\* bytes stored into in[0..status-1]; reply is what the target answers.
DwReceive(s, inlen, reply) ==
  IF ~Running(s) THEN s
  ELSE IF ~(inlen <= ReceiveMax) THEN Fail(s, "AssertFailed")
  ELSE Then(dwBufferFlush(s, ModeRead), LAMBDA s1 :
       Then([s1 EXCEPT !.tries = 0, !.status = 0, !.rx = <<>>], LAMBDA s2 :
         Iterate(LAMBDA v : DwReceiveRead(v, inlen, reply), s2, ReceiveTries)))

\* void DwSync()
DwSync(s) ==
  Then(dwBufferFlush(s, ModeSync), LAMBDA s1 :
  Then(SetDwireBaud(s1), LAMBDA s2 :
    IF Running(s2) /\ s2.ret = 0 THEN PortFail(s2, "SyncReadFailed") ELSE s2))

\* void DwWait()
DwWait(s) == dwBufferFlush(s, ModeWait)

(***************************************************************************)
(* Command encoder.                                                        *)
(***************************************************************************)
\* Bytes(0xD0, hi(pc)|0x10, lo(pc)) for a u16 pc
SetPCBytes(pc) == <<208, BitOr(hi(U16(pc)), 16), lo(U16(pc))>>
SetBPBytes(bp) == <<209, BitOr(hi(U16(bp)), 16), lo(U16(bp))>>

\* void DwSetPC(u16 pc) / void DwSetBP(u16 bp)
DwSetPC(s, pc) == Then(SetPCBytes(pc), LAMBDA b : DwSend(s, b))
DwSetBP(s, bp) == Then(SetBPBytes(bp), LAMBDA b : DwSend(s, b))

\* void DwInst(u16 inst)
DwInst(s, inst) ==
  Then(<<210, hi(U16(inst)), lo(U16(inst)), 35>>, LAMBDA b : DwSend(s, b))

\* The opcodes DwIn and DwOut build.
\* An IN opcode whose I/O address is shifted by 4 instead of 5.
InOpcodeShift4(reg, ioreg) ==
  BitOr(BitOr(BitOr(45056, BitAnd(Shl(U16(ioreg), 4), 1536)),
              BitAnd(Shl(U8(reg), 4), 496)),
        BitAnd(U16(ioreg), 15))

InOpcode(reg, ioreg) ==
  BitOr(BitOr(BitOr(45056, BitAnd(Shl(U16(ioreg), 5), 1536)),
              BitAnd(Shl(U8(reg), 4), 496)),
        BitAnd(U16(ioreg), 15))
OutOpcode(ioreg, reg) ==
  BitOr(BitOr(BitOr(47104, BitAnd(Shl(U16(ioreg), 5), 1536)),
              BitAnd(Shl(U8(reg), 4), 496)),
        BitAnd(U16(ioreg), 15))

\* void DwIn(u8 reg, u16 ioreg) / void DwOut(u16 ioreg, u8 reg)
DwIn(s, reg, ioreg)  == Then(InOpcode(reg, ioreg), LAMBDA i : DwInst(s, i))
DwOut(s, ioreg, reg) == Then(OutOpcode(ioreg, reg), LAMBDA i : DwInst(s, i))

\* The start of a bulk transfer: DwSetPC(first); DwSetBP(limit); DwSend(Bytes(...))
Frame(s, first, limit, cmd) ==
  Then(DwSetPC(s, first), LAMBDA s1 :
  Then(DwSetBP(s1, limit), LAMBDA s2 : DwSend(s2, cmd)))

\* void DwGetRegs(int first, u8 *regs, int count): s.rx holds the bytes stored
\* into regs[0..status-1]; live is the target's register file.
DwGetRegs(s, first, count, live) ==
  Then(IF count = 1 THEN DwOut(s, DWDRreg(s), first)
       ELSE Frame(s, first, first + count, <<102, 194, 1, 32>>), LAMBDA s1 :
  Then([i \in 1..Max(count, 0) |-> live[(first + i - 1) % 32]], LAMBDA reply :
    DwReceive(s1, count, reply)))

\* void DwSetReg(int reg, u8 val)
DwSetReg(s, reg, val) ==
  Then(DwIn(s, reg, DWDRreg(s)), LAMBDA s1 : DwSend(s1, <<U8(val)>>))

RECURSIVE DwSetRegsLoop(_, _, _)
DwSetRegsLoop(s, first, regs) ==
  IF Len(regs) > 0
  THEN Then(DwSetReg(s, first, Head(regs)), LAMBDA s1 :
       Then(Tail(regs), LAMBDA rest :
       Then(first + 1, LAMBDA f1 : DwSetRegsLoop(s1, f1, rest))))
  ELSE s

\* A DwSetRegs that also stores the bytes into the shadow registers.
DwSetRegsShadow(s, first, regs) ==
  Then([s EXCEPT !.R = [r \in 0..31 |->
                          IF r >= first /\ r < first + Len(regs)
                          THEN regs[r - first + 1] ELSE @[r]]], LAMBDA s0 :
    IF Len(regs) <= 3 THEN DwSetRegsLoop(s0, first, regs)
    ELSE Then(Frame(s0, first, first + Len(regs), <<102, 194, 5, 32>>), LAMBDA s1 :
           DwSend(s1, regs)))

\* void DwSetRegs(int first, const u8 *regs, int count), count = Len(regs)
DwSetRegs(s, first, regs) ==
  IF Len(regs) <= 3 THEN DwSetRegsLoop(s, first, regs)
  ELSE Then(Frame(s, first, first + Len(regs), <<102, 194, 5, 32>>), LAMBDA s1 :
         DwSend(s1, regs))

\* void DwSetZ(u16 z): the two bytes of z as they lie in memory (low first).
DwSetZ(s, z) ==
  Then(<<U16(z) % 256, U16(z) \div 256>>, LAMBDA zb : DwSetRegs(s, 30, zb))

(***************************************************************************)
(* Data area access.  The caller's buffer is s.buf (position -> byte, -1   *)
(* where nothing was stored) and s.stores counts the stores per position.  *)
(***************************************************************************)
Store(s, at, bytes) ==
  [s EXCEPT !.buf = [i \in DOMAIN @ |->
                       IF i >= at /\ i < at + Len(bytes) THEN bytes[i - at + 1] ELSE @[i]],
            !.stores = [i \in DOMAIN @ |->
                          IF i >= at /\ i < at + Len(bytes) THEN @[i] + 1 ELSE @[i]]]

\* void DwUnsafeReadAddr(int addr, int len, u8 *buf), buf = caller's buffer + at
DwUnsafeReadAddr(s, addr, len, at) ==
  IF ~Running(s) THEN s
  ELSE
    Then([s EXCEPT !.reads = Append(@, [addr |-> addr, len |-> len, at |-> at])],
         LAMBDA sl :
    Then(DwSetZ(sl, addr), LAMBDA s0 :
    Then(Frame(s0, 0, 2 * len, <<102, 194, 0, 32>>), LAMBDA s1 :
    Then([i \in 1..Max(len, 0) |-> TargetMem(addr + i - 1)], LAMBDA reply :
    Then(DwReceive(s1, len, reply), LAMBDA s2 :
      IF ~Running(s2) THEN s2 ELSE Store(s2, at, s2.rx))))))

\* The position of DwReadAddr: its parameters addr, len and buf as it advances them.
Advance(s, n) == [s EXCEPT !.addr = @ + n, !.len = @ - n, !.at = @ + n]

\* DwUnsafeReadAddr(addr, n, buf); addr+=n; len-=n; buf+=n;
ReadAndAdvance(s, n) ==
  Then(DwUnsafeReadAddr(s, s.addr, n, s.at), LAMBDA s1 : Advance(s1, n))

\* A cached-register loop that only knows r30 and r31.
RECURSIVE DwReadAddrCachedZ(_)
DwReadAddrCachedZ(s) ==
  IF s.addr >= 30 /\ s.addr <= 31 /\ s.len > 0
  THEN Then(Store(s, s.at, <<s.R[s.addr]>>), LAMBDA s1 :
       Then(Advance(s1, 1), LAMBDA s2 : DwReadAddrCachedZ(s2)))
  ELSE s

RECURSIVE DwReadAddrCached(_)
DwReadAddrCached(s) ==
  IF s.addr >= 28 /\ s.addr <= 31 /\ s.len > 0
  THEN Then(Store(s, s.at, <<s.R[s.addr]>>), LAMBDA s1 :
       Then(Advance(s1, 1), LAMBDA s2 : DwReadAddrCached(s2)))
  ELSE s

RECURSIVE DwReadAddrChunks(_)
DwReadAddrChunks(s) ==
  IF Running(s) /\ s.len > 128
  THEN Then(ReadAndAdvance(s, 128), LAMBDA s1 : DwReadAddrChunks(s1))
  ELSE s

\* void DwReadAddr(int addr, int len, u8 *buf)
DwReadAddr(s, addr, len) ==
  IF ~Running(s) THEN s
  ELSE
    Then([s EXCEPT !.addr = addr, !.len = len, !.at = 0], LAMBDA s0 :
    Then(Min(s0.len, 28 - s0.addr), LAMBDA len1 :
    Then(IF len1 > 0 THEN ReadAndAdvance(s0, len1) ELSE s0, LAMBDA s1 :
    Then(DwReadAddrCached(s1), LAMBDA s2 :
    Then(Min(s2.len, DWDRaddr(s2) - s2.addr), LAMBDA len2 :
    Then(IF len2 > 0 THEN ReadAndAdvance(s2, len2) ELSE s2, LAMBDA s3 :
    Then(IF s3.addr = DWDRaddr(s3) /\ s3.len > 0
         THEN Then(Store(s3, s3.at, <<0>>), LAMBDA s3a : Advance(s3a, 1))
         ELSE s3, LAMBDA s4 :
    Then(DwReadAddrChunks(s4), LAMBDA s5 :
      IF ~Running(s5) THEN s5
      ELSE IF s5.len > 0 THEN DwUnsafeReadAddr(s5, s5.addr, s5.len, s5.at)
      ELSE s5))))))))

\* A write loop that skips r28..r31 but not DWDR.
RECURSIVE DwWriteAddrLoopOverDWDR(_, _, _, _)
DwWriteAddrLoopOverDWDR(s, addr, limit, buf) ==
  IF Running(s) /\ addr < limit
  THEN Then(IF addr < 28 \/ addr > 31
            THEN Then(DwSetPC(s, 1), LAMBDA s1 : DwSend(s1, <<32, Head(buf)>>))
            ELSE Then([s EXCEPT !.R[addr] = Head(buf)], LAMBDA s1 :
                   DwSetZ(s1, addr + 1)), LAMBDA s2 :
       Then(Tail(buf), LAMBDA rest :
       Then(addr + 1, LAMBDA a1 : DwWriteAddrLoopOverDWDR(s2, a1, limit, rest))))
  ELSE s

RECURSIVE DwWriteAddrLoop(_, _, _, _)
DwWriteAddrLoop(s, addr, limit, buf) ==
  IF Running(s) /\ addr < limit
  THEN Then(IF addr < 28 \/ (addr > 31 /\ addr # DWDRaddr(s))
            THEN Then(DwSetPC(s, 1), LAMBDA s1 : DwSend(s1, <<32, Head(buf)>>))
            ELSE Then(IF addr >= 28 /\ addr <= 31
                      THEN [s EXCEPT !.R[addr] = Head(buf)] ELSE s, LAMBDA s1 :
                   DwSetZ(s1, addr + 1)), LAMBDA s2 :
       Then(Tail(buf), LAMBDA rest :
       Then(addr + 1, LAMBDA a1 : DwWriteAddrLoop(s2, a1, limit, rest))))
  ELSE s

\* void DwWriteAddr(int addr, int len, const u8 *buf), len = Len(buf)
DwWriteAddr(s, addr, buf) ==
  Then(DwSetZ(s, addr), LAMBDA s0 :
  Then(DwSetBP(s0, 3), LAMBDA s1 :
  Then(DwSend(s1, <<102, 194, 4>>), LAMBDA s2 :
    DwWriteAddrLoop(s2, addr, addr + Len(buf), buf))))

(***************************************************************************)
(* Start / stop.                                                           *)
(***************************************************************************)
\* int DwReadByte(): u8 byte = 0; DwReceive(&byte, 1); return byte
DwReadByte(s, reply) ==
  Then(DwReceive(s, 1, reply), LAMBDA s1 :
    IF ~Running(s1) THEN s1
    ELSE [s1 EXCEPT !.ret = IF s1.status >= 1 THEN s1.rx[1] ELSE 0])

\* (buf[0] << 8) | buf[1] for u8 buf[2] = {0} after status bytes were stored
WordOf(rx, status) ==
  BitOr(Shl(IF status >= 1 THEN rx[1] ELSE 0, 8), IF status >= 2 THEN rx[2] ELSE 0)

\* int DwReadWord(): u8 buf[2] = {0}; DwReceive(buf, 2); return (buf[0] << 8) | buf[1]
DwReadWord(s, reply) ==
  Then(DwReceive(s, 2, reply), LAMBDA s1 :
    IF ~Running(s1) THEN s1
    ELSE [s1 EXCEPT !.ret = WordOf(s1.rx, s1.status)])

\* PC = (2 * (DwReadWord() - 1) % FlashSize())
PCOf(w, flashSize) == CRem(2 * (w - 1), flashSize)

\* void DwReconnect(): target = [pcw: the word answered to F0, regs: r0..r31]
DwReconnect(s, target) ==
  Then(DwSend(s, <<240>>), LAMBDA s1 :
  Then(DwReadWord(s1, <<hi(target.pcw), lo(target.pcw)>>), LAMBDA s2 :
  Then(IF Running(s2) THEN [s2 EXCEPT !.PC = PCOf(s2.ret, FlashSize(s2))] ELSE s2,
       LAMBDA s3 :
  Then(DwGetRegs(s3, 28, 4, target.regs), LAMBDA s4 :
    IF ~Running(s4) THEN s4
    ELSE [s4 EXCEPT !.R = [r \in 0..31 |->
                             IF r >= 28 /\ r - 28 < s4.status
                             THEN s4.rx[r - 28 + 1] ELSE @[r]]]))))

\* void DwReset()
DwReset(s, target) ==
  Then(DwSend(s, <<7>>), LAMBDA s1 :
  Then(DwSync(s1), LAMBDA s2 : DwReconnect(s2, target)))

\* A DwDisable whose flush is DwWait.
DwDisableWait(s) == Then(DwSend(s, <<6>>), LAMBDA s1 : DwWait(s1))

\* void DwDisable()
DwDisable(s) == Then(DwSend(s, <<6>>), LAMBDA s1 : DwFlush(s1))

\* The four bytes at R, as DwSetRegs(28, R, 4) reads them.
RegsAtR(s) == <<s.R[0], s.R[1], s.R[2], s.R[3]>>

\* DwSetRegs(28, R, 4); DwSetPC(PC/2);
RestoreAndSetPC(s) ==
  Then(RegsAtR(s), LAMBDA regs :
  Then(DwSetRegs(s, 28, regs), LAMBDA s1 : DwSetPC(s1, CDiv(s1.PC, 2))))

\* void DwTrace()
DwTrace(s, target) ==
  Then(RestoreAndSetPC(s), LAMBDA s2 :
  Then(DwSend(s2, <<96, 49>>), LAMBDA s3 :
  Then(DwSync(s3), LAMBDA s4 : DwReconnect(s4, target))))

\* A DwGo that ends with DwFlush instead of DwWait.
DwGoFlush(s) ==
  Then(RestoreAndSetPC(s), LAMBDA s2 :
  Then(IF s2.BP < 0
       THEN DwSend(s2, <<IF s2.TimerEnable THEN 64 ELSE 96>>)
       ELSE Then(DwSetBP(s2, CDiv(s2.BP, 2)), LAMBDA s2a :
              DwSend(s2a, <<IF s2a.TimerEnable THEN 65 ELSE 97>>)), LAMBDA s3 :
  Then(DwSend(s3, <<48>>), LAMBDA s4 : DwFlush(s4))))

\* void DwGo()
DwGo(s) ==
  Then(RestoreAndSetPC(s), LAMBDA s2 :
  Then(IF s2.BP < 0
       THEN DwSend(s2, <<IF s2.TimerEnable THEN 64 ELSE 96>>)
       ELSE Then(DwSetBP(s2, CDiv(s2.BP, 2)), LAMBDA s2a :
              DwSend(s2a, <<IF s2a.TimerEnable THEN 65 ELSE 97>>)), LAMBDA s3 :
  Then(DwSend(s3, <<48>>), LAMBDA s4 : DwWait(s4))))

(***************************************************************************)
(* The state machine.                                                      *)
(***************************************************************************)
\* What the callers pass in.
SendLens   == {0, 1, 127, 128, 129, 256, 384}
SendSeeds  == {1}
ReceiveLens == {4}
Pattern(seed, n) == [i \in 1..n |-> (seed + 3 * i) % 256]
ReplyBytes(n) == [i \in 1..n |-> (5 * i + 17) % 256]
PCWords    == {0, 129}
Targets    == { [pcw |-> w, regs |-> [r \in 0..31 |-> TargetReg(r)]] : w \in PCWords }
ReadRanges == { <<0, 0>>, <<26, 8>>, <<60, 30>>, <<0, 212>>, <<100, 257>> }
WriteArgs  == { <<29, <<161, 162, 163, 164>>>>, <<64, <<1, 2, 3>>>>, <<80, <<9, 8>>>> }
RegsArgs   == { <<28, <<21, 22, 23, 24>>>>, <<5, <<7, 8>>>>, <<0, <<>>>> }
GetArgs    == { <<28, 4>>, <<3, 1>> }

\* What the user interface has set up before the session is used.
Configs ==
  { [device |-> d, BP |-> b[1], TimerEnable |-> b[2]] :
      d \in Characteristics, b \in {<<-1, FALSE>>, <<512, TRUE>>} }

Init ==
  \E c \in Configs :
    /\ Port = 0
    /\ OutBufBytes = [i \in 0..(BufSize - 1) |-> 0]
    /\ OutBufLength = 0
    /\ R = [r \in 0..31 |-> 0]
    /\ PC = 0
    /\ BP = c.BP
    /\ TimerEnable = c.TimerEnable
    /\ cyclesPerPulse = 0
    /\ device = c.device
    /\ halt = ""
    /\ overflow = FALSE
    /\ op = [name |-> "init", a |-> 0, b |-> 0, bytes |-> <<>>,
             pre |-> [Port |-> 0, OutBufLength |-> 0, R |-> [r \in 0..31 |-> 0]]]
    /\ res = [status |-> 0, ret |-> 0, rx |-> <<>>, buf |-> <<>>, stores |-> <<>>]
    /\ usb = <<>>
    /\ xfers = <<>>
    /\ reads = <<>>
    /\ emit = <<>>
    /\ sentAll = <<>>
    /\ wireAll = <<>>
    /\ nops = 0

\* The session at the entry of a public operation: the globals as they are,
\* the logs of the operation empty, the caller's buffer of n bytes untouched,
\* the adapter in disposition ad.
Begin(ad, n) ==
  [Port |-> Port, OutBufBytes |-> OutBufBytes, OutBufLength |-> OutBufLength,
   R |-> R, PC |-> PC, BP |-> BP, TimerEnable |-> TimerEnable,
   cyclesPerPulse |-> cyclesPerPulse, device |-> device, halt |-> halt,
   overflow |-> overflow, adapter |-> ad, status |-> 0, ret |-> 0, rx |-> <<>>,
   usb |-> <<>>, xfers |-> <<>>, reads |-> <<>>, emit |-> <<>>,
   sentAll |-> sentAll, wireAll |-> wireAll,
   buf |-> [i \in 0..(n - 1) |-> -1], stores |-> [i \in 0..(n - 1) |-> 0],
   addr |-> 0, len |-> 0, at |-> 0, tries |-> 0, breaks |-> 0, synced |-> FALSE,
   who |-> ""]

\* The state after the operation.
End(s, name, a, b, bytes) ==
  /\ Port' = s.Port
  /\ OutBufBytes' = s.OutBufBytes
  /\ OutBufLength' = s.OutBufLength
  /\ R' = s.R
  /\ PC' = s.PC
  /\ BP' = s.BP
  /\ TimerEnable' = s.TimerEnable
  /\ cyclesPerPulse' = s.cyclesPerPulse
  /\ device' = s.device
  /\ halt' = s.halt
  /\ overflow' = s.overflow
  /\ op' = [name |-> name, a |-> a, b |-> b, bytes |-> bytes,
            pre |-> [Port |-> Port, OutBufLength |-> OutBufLength, R |-> R]]
  /\ res' = [status |-> s.status, ret |-> s.ret, rx |-> s.rx, buf |-> s.buf,
             stores |-> s.stores]
  /\ usb' = s.usb
  /\ xfers' = s.xfers
  /\ reads' = s.reads
  /\ emit' = s.emit
  /\ sentAll' = s.sentAll
  /\ wireAll' = s.wireAll
  /\ nops' = nops + 1

\* A public operation may be called while the process runs.
Callable == halt = "" /\ nops < MaxOps

\* Operation F called with adapter disposition ad and a caller's buffer of n
\* bytes; name, a, b and bytes record the call.
Do(ad, n, F(_), name, a, b, bytes) ==
  \E s0 \in {Begin(ad, n)} : \E s \in {F(s0)} : End(s, name, a, b, bytes)

DwSendOp ==
  /\ Callable
  /\ \E ad \in Adapters, n \in SendLens, seed \in SendSeeds :
       \E out \in {Pattern(seed, n)} :
         Do(ad, 0, LAMBDA s : DwSend(s, out), "DwSend", n, 0, out)

DwFlushOp ==
  /\ Callable
  /\ \E ad \in Adapters : Do(ad, 0, LAMBDA s : DwFlush(s), "DwFlush", 0, 0, <<>>)

DwReceiveOp ==
  /\ Callable
  /\ \E ad \in Adapters, n \in ReceiveLens :
       Do(ad, n, LAMBDA s : DwReceive(s, n, ReplyBytes(n)), "DwReceive", n, 0, <<>>)

DwReadByteOp ==
  /\ Callable
  /\ \E ad \in Adapters :
       Do(ad, 0, LAMBDA s : DwReadByte(s, ReplyBytes(1)), "DwReadByte", 0, 0, <<>>)

DwReadWordOp ==
  /\ Callable
  /\ \E ad \in Adapters :
       Do(ad, 0, LAMBDA s : DwReadWord(s, ReplyBytes(2)), "DwReadWord", 0, 0, <<>>)

DwSyncOp ==
  /\ Callable
  /\ \E ad \in Adapters : Do(ad, 0, LAMBDA s : DwSync(s), "DwSync", 0, 0, <<>>)

DwWaitOp ==
  /\ Callable
  /\ \E ad \in Adapters : Do(ad, 0, LAMBDA s : DwWait(s), "DwWait", 0, 0, <<>>)

DwGetRegsOp ==
  /\ Callable
  /\ \E ad \in Adapters, g \in GetArgs, t \in Targets :
       Do(ad, g[2], LAMBDA s : DwGetRegs(s, g[1], g[2], t.regs), "DwGetRegs", g[1], g[2], <<>>)

DwSetRegsOp ==
  /\ Callable
  /\ \E ad \in Adapters, g \in RegsArgs :
       Do(ad, 0, LAMBDA s : DwSetRegs(s, g[1], g[2]), "DwSetRegs", g[1], Len(g[2]), g[2])

DwReadAddrOp ==
  /\ Callable
  /\ \E ad \in Adapters, g \in ReadRanges :
       Do(ad, g[2], LAMBDA s : DwReadAddr(s, g[1], g[2]), "DwReadAddr", g[1], g[2], <<>>)

DwWriteAddrOp ==
  /\ Callable
  /\ \E ad \in Adapters, g \in WriteArgs :
       Do(ad, 0, LAMBDA s : DwWriteAddr(s, g[1], g[2]), "DwWriteAddr", g[1], Len(g[2]), g[2])

DwReconnectOp ==
  /\ Callable
  /\ \E ad \in Adapters, t \in Targets :
       Do(ad, 0, LAMBDA s : DwReconnect(s, t), "DwReconnect", t.pcw, 0, <<>>)

DwResetOp ==
  /\ Callable
  /\ \E ad \in Adapters, t \in Targets :
       Do(ad, 0, LAMBDA s : DwReset(s, t), "DwReset", t.pcw, 0, <<>>)

DwDisableOp ==
  /\ Callable
  /\ \E ad \in Adapters : Do(ad, 0, LAMBDA s : DwDisable(s), "DwDisable", 0, 0, <<>>)

DwTraceOp ==
  /\ Callable
  /\ \E ad \in Adapters, t \in Targets :
       Do(ad, 0, LAMBDA s : DwTrace(s, t), "DwTrace", t.pcw, 0, <<>>)

DwGoOp ==
  /\ Callable
  /\ \E ad \in Adapters : Do(ad, 0, LAMBDA s : DwGo(s), "DwGo", 0, 0, <<>>)

\* What the adapter holds when asked whether the breakpoint was reached, and
\* what the uninitialised dwBuf[0] may hold.
BreakReplies == { <<>>, <<0>>, <<1>> }
Garbage      == { 0, 85 }

dwReachedBreakpointOp ==
  /\ Callable
  /\ \E ad \in Adapters, reply \in BreakReplies, g \in Garbage :
       Do(ad, 0, LAMBDA s : dwReachedBreakpoint(s, reply, g),
          "dwReachedBreakpoint", g, Len(reply), reply)

Next ==
  \/ dwReachedBreakpointOp
  \/ DwSendOp
  \/ DwFlushOp
  \/ DwReceiveOp
  \/ DwReadByteOp
  \/ DwReadWordOp
  \/ DwSyncOp
  \/ DwWaitOp
  \/ DwGetRegsOp
  \/ DwSetRegsOp
  \/ DwReadAddrOp
  \/ DwWriteAddrOp
  \/ DwReconnectOp
  \/ DwResetOp
  \/ DwDisableOp
  \/ DwTraceOp
  \/ DwGoOp

Spec == Init /\ [][Next]_vars

(***************************************************************************)
(* The connection layer on its own: ConnectPort, DwBreakAndSync,           *)
(* SetDwireBaud and dwReachedBreakpoint against a wider range of adapter   *)
(* behaviour and of captured pulse samples.                                *)
(***************************************************************************)
MaxLinkOps == 2

\* n captured samples: the last nine are eight of v and one of w, the ones
\* before them are 7.
Samples(n, v, w) ==
  [i \in 1..n |-> IF i <= n - 9 THEN 7 ELSE IF i < n THEN v ELSE w]

PulseSets ==
  { Samples(n, v, w) : n \in {9, 10, 64}, v \in {0, 82, 43690, 65535},
                       w \in {0, 82, 83, 43695, 65535} }
    \cup { Samples(8, 82, 82), <<>> }

LinkAdapters ==
  { [Good EXCEPT !.pulses = p] : p \in PulseSets }
    \cup { [Good EXCEPT !.outFail = k, !.failStatus = f] :
             k \in {1, BreakTries - 1, BreakTries, AlwaysFail}, f \in {0, -1} }
    \cup { [Good EXCEPT !.inFail = k, !.failStatus = f] :
             k \in {BaudTries - 1, BaudTries, AlwaysFail}, f \in {0, -1} }
    \cup { [Good EXCEPT !.timingFail = TRUE],
           [Good EXCEPT !.inShort = 1],
           [Good EXCEPT !.open = FALSE],
           [Good EXCEPT !.nullUse = "crash"] }

LinkCallable == halt = "" /\ nops < MaxLinkOps

ConnectPortOp ==
  /\ LinkCallable
  /\ Port = 0
  /\ \E ad \in LinkAdapters :
       Do(ad, 0, LAMBDA s : ConnectPort(s), "ConnectPort", 0, 0, ad.pulses)

\* DwBreakAndSync and SetDwireBaud are called with the handle open.
DwBreakAndSyncOp ==
  /\ LinkCallable
  /\ Port # 0
  /\ \E ad \in LinkAdapters :
       Do(ad, 0, LAMBDA s : DwBreakAndSync(s), "DwBreakAndSync", 0, 0, ad.pulses)

SetDwireBaudOp ==
  /\ LinkCallable
  /\ Port # 0
  /\ \E ad \in LinkAdapters :
       Do(ad, 0, LAMBDA s : SetDwireBaud(s), "SetDwireBaud", 0, 0, ad.pulses)

LinkReachedBreakpointOp ==
  /\ LinkCallable
  /\ \E ad \in LinkAdapters, reply \in BreakReplies, g \in Garbage :
       Do(ad, 0, LAMBDA s : dwReachedBreakpoint(s, reply, g),
          "dwReachedBreakpoint", g, Len(reply), reply)

NextLink ==
  \/ ConnectPortOp
  \/ DwBreakAndSyncOp
  \/ SetDwireBaudOp
  \/ LinkReachedBreakpointOp

SpecLink == Init /\ [][NextLink]_vars

(***************************************************************************)
(* Properties of the outbound buffer and the byte transports.              *)
(***************************************************************************)

\* The bytes waiting in the outbound buffer.
Waiting == [i \in 1..OutBufLength |-> OutBufBytes[i - 1]]

\* The byte transports the last operation delivered in a given mode.
Delivered(mode) == { i \in 1..Len(xfers) : xfers[i].state = mode }

\* C1: OutBufLength stays within 0..128 at all times, the assertion in DwSend
\* never fails and no copy writes past the end of OutBufBytes.
C1_BufferBounds ==
  /\ 0 <= OutBufLength
  /\ OutBufLength <= BufSize
  /\ ~overflow
  /\ halt # "AssertFailed"

\* C1 witness: a DwSend on a non-empty buffer went through the chunking loop
\* and left the buffer exactly full.
C1_FullAfterChunk ==
  /\ op.name = "DwSend"
  /\ op.pre.OutBufLength > 0
  /\ Len(xfers) > 0
  /\ OutBufLength = BufSize
  /\ halt = ""

\* C2: while the process runs, the bytes delivered to the adapter followed by
\* the bytes still waiting in the buffer are exactly the bytes passed to
\* DwSend, in call order: none lost, none duplicated, none reordered.
C2_ProgramOrder ==
  halt = "" => wireAll \o Waiting = sentAll

\* C2 witness: two full transports were delivered and bytes are still waiting.
C2_DeliveredAndWaiting ==
  /\ halt = ""
  /\ nops = 2
  /\ Len(wireAll) >= 2 * BufSize
  /\ OutBufLength > 0
  /\ Len(xfers) > 0

(***************************************************************************)
(* Resuming the target.                                                    *)
(***************************************************************************)

\* The bulk register write framing for r28..r31.
Write28Frame == <<208, 16, 28, 209, 16, 32, 102, 194, 5, 32>>

\* C3 (as stated): DwGo and DwTrace restore r28..r31 by sending the shadow
\* values R[28..31] held when the operation was called.
C3_RestoresShadowZ ==
  (op.name \in {"DwGo", "DwTrace"} /\ Len(emit) >= 14)
    => SubSeq(emit, 11, 14) = <<op.pre.R[28], op.pre.R[29], op.pre.R[30], op.pre.R[31]>>

(***************************************************************************)
(* Retry budgets.                                                          *)
(***************************************************************************)

\* n consecutive failed USB calls of one direction starting at usb[i]; for
\* the OUT direction they are byte transports.
FailedRun(i, dir, n) ==
  /\ i + n - 1 <= Len(usb)
  /\ \A j \in i..(i + n - 1) :
       /\ usb[j].dir = dir
       /\ usb[j].status <= 0
       /\ (dir = "OUT" => usb[j].value \in ByteModes /\ usb[j].len > 0)

\* The byte send used its first attempt and all its 50 retries.
SendExhausted == \E i \in 1..Len(usb) : FailedRun(i, "OUT", SendTries + 1)

\* The IN transfer of DwReceive used all its 50 attempts.
ReceiveExhausted == \E i \in 1..Len(usb) : FailedRun(i, "IN", ReceiveTries)

\* C4 (as stated): an operation whose transport used up its retry budget
\* ends the process with the port released; it never returns normally.
C4_ExhaustionAborts ==
  (SendExhausted \/ ReceiveExhausted) => (halt # "" /\ Port = 0)

(***************************************************************************)
(* Chunking in DwSend.                                                     *)
(***************************************************************************)

\* A DwSend of op.a bytes into an empty buffer returned.
SendIntoEmpty == op.name = "DwSend" /\ op.pre.OutBufLength = 0 /\ halt = ""

\* C5 (as stated): a DwSend of N > 128 bytes into an empty buffer issues
\* exactly floor(N/128) mode-4 transports, and none when N <= 128.
C5_FloorTransports ==
  SendIntoEmpty =>
    Cardinality(Delivered(ModeSend)) = IF op.a <= BufSize THEN 0 ELSE op.a \div BufSize

\* C5 (amended): a DwSend of N bytes into an empty buffer issues exactly
\* ceil(N/128) - 1 transports for N > 128, each in mode 4 and carrying 128
\* bytes, and none when N <= 128.
C5_CeilMinusOneTransports ==
  SendIntoEmpty =>
    /\ Len(xfers) = IF op.a <= BufSize THEN 0 ELSE (op.a - 1) \div BufSize
    /\ \A i \in 1..Len(xfers) : xfers[i].state = ModeSend /\ Len(xfers[i].out) = BufSize

\* C5 witness: 256 bytes into an empty buffer, one transport.
C5_TwoBuffersOneTransport ==
  SendIntoEmpty /\ op.a = 2 * BufSize /\ Len(xfers) = 1

\* C6: after a DwSend of at least one byte returns, the buffer holds between
\* 1 and 128 bytes.
C6_NeverDrained ==
  (op.name = "DwSend" /\ op.a >= 1 /\ halt = "")
    => (1 <= OutBufLength /\ OutBufLength <= BufSize)

\* C6 witness: 128 bytes sent into a full buffer, the buffer is full again.
C6_FullIntoFull ==
  /\ op.name = "DwSend"
  /\ op.a = BufSize
  /\ op.pre.OutBufLength = BufSize
  /\ halt = ""
  /\ Len(xfers) = 1
  /\ OutBufLength = BufSize

\* C7: every transport attempted in mode 0x14 carries between 1 and 128
\* bytes, and a DwFlush on an empty buffer issues no transport and leaves
\* OutBufLength at 0.
C7_ReadModePayload ==
  /\ \A i \in 1..Len(usb) :
       (usb[i].dir = "OUT" /\ usb[i].value = ModeRead)
         => (1 <= usb[i].len /\ usb[i].len <= BufSize)
  /\ (op.name = "DwFlush" /\ op.pre.OutBufLength = 0)
       => (usb = <<>> /\ OutBufLength = 0)

\* C7 witness: a DwFlush on an empty buffer after an earlier operation.
C7_FlushOfEmpty ==
  op.name = "DwFlush" /\ op.pre.OutBufLength = 0 /\ op.pre.Port # 0 /\ halt = ""

(***************************************************************************)
(* Data area reads.                                                        *)
(***************************************************************************)

\* C8: no bulk read issued by DwReadAddr covers an address in 28..31 or the
\* data address of DWDR.
C8_BulkReadsAvoidCached ==
  op.name = "DwReadAddr" =>
    \A i \in 1..Len(reads) :
      \A a \in reads[i].addr..(reads[i].addr + reads[i].len - 1) :
        a \notin 28..31 /\ a # device.DWDR + 32

\* C8 witness: a DwReadAddr across r28..r31 and DWDR issued bulk reads below,
\* between and above them.
C8_ReadAcrossCached ==
  /\ op.name = "DwReadAddr"
  /\ op.a = 0
  /\ halt = ""
  /\ Len(reads) >= 4

\* What position i of a DwReadAddr(addr, len) has to hold.
Expected(addr, i) ==
  IF addr + i \in 28..31 THEN op.pre.R[addr + i]
  ELSE IF addr + i = device.DWDR + 32 THEN 0
  ELSE TargetMem(addr + i)

\* C9 (as stated): a DwReadAddr(addr, len) that returns has filled each of
\* the len positions exactly once: the shadow value for 28..31, zero for
\* DWDR, the target's byte otherwise; no bulk read is longer than 128.
C9_FillsEveryPosition ==
  (op.name = "DwReadAddr" /\ halt = "") =>
    /\ \A i \in 0..(op.b - 1) :
         res.stores[i] = 1 /\ res.buf[i] = Expected(op.a, i)
    /\ \A i \in 1..Len(reads) : reads[i].len <= ReceiveMax

(***************************************************************************)
(* Register writes.                                                        *)
(***************************************************************************)

\* A DwSetRegs(28, [a,b,c,d]) returned.
SetRegs28 ==
  op.name = "DwSetRegs" /\ op.a = 28 /\ Len(op.bytes) = 4 /\ halt = ""

\* C10 (as stated): after DwSetRegs(28, [a,b,c,d]) the shadow R[28..31]
\* equals [a,b,c,d].
C10_ShadowUpdated ==
  SetRegs28 => <<R[28], R[29], R[30], R[31]>> = op.bytes

\* C10 (amended): DwSetRegs(28, [a,b,c,d]) leaves the shadow registers as
\* they were and emits the bulk write framing followed by a, b, c, d.
C10_ShadowUntouched ==
  SetRegs28 => (R = op.pre.R /\ emit = Write28Frame \o op.bytes)

\* C10 witness: a DwSetRegs(28, ...) while the shadow holds other values.
C10_SetRegsOverShadow ==
  SetRegs28 /\ <<R[28], R[29], R[30], R[31]>> = <<228, 229, 230, 231>>

(***************************************************************************)
(* The instruction encoders on their own: DwIn and DwOut on every register *)
(* and every I/O address.  The operands are drawn at the start (op.a is    *)
(* the register, op.b the I/O address) and the actions encode them.        *)
(***************************************************************************)
MaxEncOps == 1

Regs   == 0..31
IoRegs == 0..63

InitEnc ==
  \E c \in Configs, reg \in Regs, ioreg \in IoRegs :
    /\ Port = 0
    /\ OutBufBytes = [i \in 0..(BufSize - 1) |-> 0]
    /\ OutBufLength = 0
    /\ R = [r \in 0..31 |-> 0]
    /\ PC = 0
    /\ BP = c.BP
    /\ TimerEnable = c.TimerEnable
    /\ cyclesPerPulse = 0
    /\ device = c.device
    /\ halt = ""
    /\ overflow = FALSE
    /\ op = [name |-> "operands", a |-> reg, b |-> ioreg, bytes |-> <<>>,
             pre |-> [Port |-> 0, OutBufLength |-> 0, R |-> [r \in 0..31 |-> 0]]]
    /\ res = [status |-> 0, ret |-> 0, rx |-> <<>>, buf |-> <<>>, stores |-> <<>>]
    /\ usb = <<>>
    /\ xfers = <<>>
    /\ reads = <<>>
    /\ emit = <<>>
    /\ sentAll = <<>>
    /\ wireAll = <<>>
    /\ nops = 0

EncCallable == halt = "" /\ nops < MaxEncOps

DwInOp ==
  /\ EncCallable
  /\ Do(Good, 0, LAMBDA s : DwIn(s, op.a, op.b), "DwIn", op.a, op.b, <<>>)

DwOutOp ==
  /\ EncCallable
  /\ Do(Good, 0, LAMBDA s : DwOut(s, op.b, op.a), "DwOut", op.a, op.b, <<>>)

NextEnc ==
  \/ DwInOp
  \/ DwOutOp

SpecEnc == InitEnc /\ [][NextEnc]_vars

(***************************************************************************)
(* Clock recovery.                                                         *)
(***************************************************************************)

\* The USB calls of the last operation that set the bit time (mode 2).
TimingCalls == { i \in 1..Len(usb) : usb[i].dir = "OUT" /\ usb[i].value = ModeTiming }

\* The sum of the last nine of the samples the adapter captured (op.bytes).
LastNineSum == SumSeq(SubSeq(op.bytes, Len(op.bytes) - 8, Len(op.bytes)))

\* C11 (as stated): whenever clock recovery goes through on nine or more
\* captured samples, cyclesPerPulse is floor(6*S/9) + 8 for the sum S of the
\* last nine, and the two bytes sent in mode 2 are, low byte first, exactly
\* floor((cyclesPerPulse - 8) / 4); nine samples of 82 give 500, a reported
\* baud rate of 33000 and the bytes 7B 00.
C11_BitTimeLossless ==
  (op.name \in {"ConnectPort", "DwBreakAndSync", "SetDwireBaud"} /\ Len(op.bytes) >= 9)
    => \A i \in TimingCalls :
         /\ cyclesPerPulse = (6 * LastNineSum) \div 9 + 8
         /\ Len(usb[i].data) = 2
         /\ usb[i].data[1] + 256 * usb[i].data[2] = (cyclesPerPulse - 8) \div 4
         /\ (op.bytes = NinePulses =>
               /\ cyclesPerPulse = 500
               /\ ReportedBaud(cyclesPerPulse) = 33000
               /\ usb[i].data = <<123, 0>>)

(***************************************************************************)
(* The bytes of DwGo and DwDisable.                                        *)
(***************************************************************************)

\* A command byte followed by a word address: the high byte with bit 4 set,
\* then the low byte.
AddressCommand(cmd, byteAddress) ==
  LET w  == (IF byteAddress >= 0 THEN byteAddress \div 2
             ELSE -((-byteAddress) \div 2)) % 65536
      h  == w \div 256
  IN <<cmd, IF (h \div 16) % 2 = 1 THEN h ELSE h + 16, w % 256>>

\* What DwGo has to emit after the four restored register bytes.
GoAfterRestore ==
  AddressCommand(208, PC)
    \o (IF BP < 0 THEN <<IF TimerEnable THEN 64 ELSE 96>>
        ELSE AddressCommand(209, BP) \o <<IF TimerEnable THEN 65 ELSE 97>>)
    \o <<48>>

\* DwGo emitted the register write framing, four register bytes, the start
\* address, the execution context and 30 with nothing in between; the buffer
\* is empty, and the last byte transport went out in mode 0x0C ending in 30.
GoWire ==
  /\ Len(emit) = 14 + Len(GoAfterRestore)
  /\ SubSeq(emit, 1, 10) = Write28Frame
  /\ SubSeq(emit, 15, Len(emit)) = GoAfterRestore
  /\ OutBufLength = 0
  /\ Len(xfers) >= 1
  /\ xfers[Len(xfers)].state = ModeWait
  /\ xfers[Len(xfers)].out[Len(xfers[Len(xfers)].out)] = 48

\* The inbound transfers of the last operation.
InCalls == { i \in 1..Len(usb) : usb[i].dir = "IN" }

\* The USB calls of the last operation that carry bytes for the target.
ByteCalls == { i \in 1..Len(usb) : usb[i].dir = "OUT" /\ usb[i].value \in ByteModes }

\* C12 (as stated): a DwGo that returns has emitted exactly the restore
\* bytes, SetPC(PC/2), the context (with SetBP(BP/2) when BP >= 0) and 30, left
\* the buffer empty, sent the final 30 in mode 0x0C and issued no inbound
\* transfer.
C12_GoNoInbound ==
  (op.name = "DwGo" /\ halt = "") => (GoWire /\ InCalls = {})

\* C12 (amended): as stated, except that a DwGo called while the handle is
\* null connects first: its only inbound transfers are then the read-backs of
\* the clock recovery, all before its first byte transport.  With the handle
\* open it issues no inbound transfer.
C12_GoInboundOnlyToConnect ==
  (op.name = "DwGo" /\ halt = "") =>
    /\ GoWire
    /\ op.pre.Port # 0 => InCalls = {}
    /\ \A i \in InCalls :
         usb[i].who = "SetDwireBaud" /\ \A j \in ByteCalls : i < j

\* C12 witness: a DwGo on an open handle with a breakpoint set and a start
\* address other than 0.
C12_GoWithBreakpoint ==
  /\ op.name = "DwGo"
  /\ halt = ""
  /\ op.pre.Port # 0
  /\ BP >= 0
  /\ PC > 0

\* A DwDisable returned.
Disabled == op.name = "DwDisable" /\ halt = ""

\* The number of payload bytes of the byte transports of the last operation.
RECURSIVE PayloadLength(_)
PayloadLength(n) == IF n = 0 THEN 0 ELSE Len(xfers[n].out) + PayloadLength(n - 1)

\* C13 (as stated): DwDisable causes exactly one byte transport, in mode
\* 0x14 with the single byte 06 as payload, and leaves the buffer empty.
C13_DisableOnlySix ==
  Disabled =>
    /\ xfers = <<[state |-> ModeRead, out |-> <<6>>]>>
    /\ OutBufLength = 0

\* C13 (amended): DwDisable appends 06 to the buffered bytes and flushes in
\* mode 0x14: the buffer ends empty, the last transport is in mode 0x14 and
\* ends in 06, the transports carry the bytes buffered before and 06, there
\* is one transport unless the buffer was full (then a mode-4 transport of 128
\* bytes goes first), and on an empty buffer the payload is 06 alone.
C13_DisableAppendsSix ==
  Disabled =>
    /\ OutBufLength = 0
    /\ Len(xfers) = IF op.pre.OutBufLength = BufSize THEN 2 ELSE 1
    /\ xfers[Len(xfers)].state = ModeRead
    /\ xfers[Len(xfers)].out[Len(xfers[Len(xfers)].out)] = 6
    /\ PayloadLength(Len(xfers)) = op.pre.OutBufLength + 1
    /\ Len(xfers) = 2 => (xfers[1].state = ModeSend /\ Len(xfers[1].out) = BufSize)
    /\ op.pre.OutBufLength = 0 => xfers = <<[state |-> ModeRead, out |-> <<6>>]>>

\* C13 witness: a DwDisable on a full buffer.
C13_DisableOnFullBuffer ==
  Disabled /\ op.pre.OutBufLength = BufSize /\ Len(xfers) = 2

(***************************************************************************)
(* Instruction encoding.                                                   *)
(***************************************************************************)

\* The AVR instruction decoder on the IN/OUT format: 1011 0AAd dddd AAAA is
\* IN Rd,A and 1011 1AAr rrrr AAAA is OUT A,Rr.
Decode(w) ==
  [name  |-> IF w \div 2048 = 22 THEN "DwIn"
             ELSE IF w \div 2048 = 23 THEN "DwOut" ELSE "other",
   reg   |-> (w \div 16) % 32,
   ioreg |-> 16 * ((w \div 512) % 4) + (w % 16)]

\* C14: the opcode DwIn(reg, ioreg) or DwOut(ioreg, reg) puts on the wire
\* (as D2 hi lo 23) decodes under the AVR IN/OUT format to the same operation,
\* register and I/O address, for every reg in 0..31 and ioreg in 0..63; the
\* decoder being a function, distinct triples then have distinct opcodes.
C14_OpcodeRoundTrip ==
  op.name \in {"DwIn", "DwOut"} =>
    /\ Len(emit) = 4
    /\ emit[1] = 210
    /\ emit[4] = 35
    /\ Decode(256 * emit[2] + emit[3]) = [name |-> op.name, reg |-> op.a, ioreg |-> op.b]

\* C14 witness: DwIn on the highest register and I/O address.
C14_InHighest ==
  op.name = "DwIn" /\ op.a = 31 /\ op.b = 63 /\ emit = <<210, 183, 255, 35>>

(***************************************************************************)
(* Data area writes.                                                       *)
(***************************************************************************)

\* The instruction IN reg,DWDR as sent to the target: D2, the opcode
\* 1011 0AAd dddd AAAA high byte first, 23.
InDWDR(reg) ==
  LET w == 45056 + 512 * (device.DWDR \div 16) + 16 * reg + (device.DWDR % 16)
  IN <<210, w \div 256, w % 256, 35>>

\* SetZ(z): r30 and r31 loaded through DWDR with the low and high byte of z.
SetZWire(z) == InDWDR(30) \o <<z % 256>> \o InDWDR(31) \o <<(z \div 256) % 256>>

\* What DwWriteAddr has to emit for the addresses from a on, with values buf.
RECURSIVE WriteWire(_, _)
WriteWire(a, buf) ==
  IF buf = <<>> THEN <<>>
  ELSE (IF a \in 28..31 \/ a = device.DWDR + 32 THEN SetZWire(a + 1)
        ELSE <<208, 16, 1, 32, Head(buf)>>)
       \o WriteWire(a + 1, Tail(buf))

\* C15: a DwWriteAddr(addr, len, buf) that returns has emitted, after
\* SetZ(addr), SetBP(3) and 66 C2 04, for each address in ascending order
\* either SetPC(1) 20 value (address not in 28..31 and not DWDR) or only
\* SetZ(address + 1) (r28..r31 and DWDR); the shadow R holds the value for
\* each written address in 28..31 and is otherwise unchanged.
C15_WriteAddrWire ==
  (op.name = "DwWriteAddr" /\ halt = "") =>
    /\ emit = SetZWire(op.a) \o <<209, 16, 3, 102, 194, 4>> \o WriteWire(op.a, op.bytes)
    /\ R = [r \in 0..31 |->
              IF r \in 28..31 /\ r >= op.a /\ r < op.a + Len(op.bytes)
              THEN op.bytes[r - op.a + 1] ELSE op.pre.R[r]]

\* C15 witness: a write across r29..r31 into address 32.
C15_WriteAcrossZ ==
  /\ op.name = "DwWriteAddr"
  /\ halt = ""
  /\ op.a = 29
  /\ <<R[28], R[29], R[30], R[31]>> = <<0, 161, 162, 163>>
  /\ SubSeq(emit, Len(emit) - 4, Len(emit)) = <<208, 16, 1, 32, 164>>

(***************************************************************************)
(* Retry budgets, counted on the USB calls of the last operation.  A call  *)
(* carries the value of its loop's tries: in dwUSBSendBytes the number of  *)
(* retries made (0 for the first attempt), in DwReceive and SetDwireBaud   *)
(* the number of the attempt (1 for the first).                            *)
(***************************************************************************)

\* The attempts of byte sends, of DwReceive reads and of clock-recovery reads.
SendAttempts    == { i \in 1..Len(usb) : usb[i].who = "dwUSBSendBytes" }
ReceiveAttempts == { i \in 1..Len(usb) : usb[i].who = "DwReceive" }
BaudAttempts    ==
  { i \in 1..Len(usb) : usb[i].who = "SetDwireBaud" /\ usb[i].dir = "IN" }

\* USB call i repeats call i-1, which returned a status <= 0.
RetryOfFailed(i) ==
  /\ i > 1
  /\ usb[i - 1].who = usb[i].who
  /\ usb[i - 1].dir = usb[i].dir
  /\ usb[i - 1].tries = usb[i].tries - 1
  /\ usb[i - 1].status <= 0

\* Receive makes at most 50 attempts, a clock-recovery read-back at most 5,
\* and every attempt after the first of a loop follows a status <= 0.
ReadBudgets ==
  /\ \A i \in ReceiveAttempts :
       usb[i].tries \in 1..ReceiveTries /\ (usb[i].tries > 1 => RetryOfFailed(i))
  /\ \A i \in BaudAttempts :
       usb[i].tries \in 1..BaudTries /\ (usb[i].tries > 1 => RetryOfFailed(i))
  /\ \A i \in SendAttempts : usb[i].tries > 0 => RetryOfFailed(i)

\* C16 (as stated): a byte send makes at most 50 OUT attempts, a Receive at
\* most 50 IN attempts, a clock-recovery read-back at most 5, each retry only
\* after a status <= 0.
C16_FiftySendAttempts ==
  /\ ReadBudgets
  /\ \A i \in SendAttempts : usb[i].tries + 1 <= SendTries

\* C16 (amended): a byte send makes at most 51 OUT attempts, the first and
\* at most 50 retries; the rest as stated.
C16_FiftySendRetries ==
  /\ ReadBudgets
  /\ \A i \in SendAttempts : usb[i].tries \in 0..SendTries

\* C16 witness: a byte send accepted at its 51st attempt, in an operation
\* that returned.
C16_AcceptedAtLastRetry ==
  /\ halt = ""
  /\ \E i \in SendAttempts : usb[i].tries = SendTries /\ usb[i].status > 0

(***************************************************************************)
(* Break and sync, read off the USB calls of the last operation: a call    *)
(* carries the number of the break attempt it belongs to (0 for the        *)
(* first).                                                                 *)
(***************************************************************************)

\* The break commands (mode 33) of the last operation.
BreakCalls == { i \in 1..Len(usb) : usb[i].dir = "OUT" /\ usb[i].value = ModeBreak }

\* Break attempt k had its break command accepted and its read-back yielded
\* at least 18 bytes.
Recovered(k) ==
  /\ \E i \in BreakCalls : usb[i].breaks = k /\ usb[i].status >= 0
  /\ \E j \in BaudAttempts : usb[j].breaks = k /\ usb[j].status >= MinPulseBytes

RecoveredAttempts == { k \in 0..(BreakTries - 1) : Recovered(k) }

\* DwBreakAndSync ran, alone or in ConnectPort after the device was opened.
BrokeAndSynced ==
  op.name = "DwBreakAndSync" \/ (op.name = "ConnectPort" /\ halt # "NoDevice")

\* The break attempts are numbered 0, 1, ... in order and are at most 25.
BreaksCounted ==
  /\ Cardinality(BreakCalls) <= BreakTries
  /\ { usb[i].breaks : i \in BreakCalls } = 0..(Cardinality(BreakCalls) - 1)

\* Without a recovered attempt there were exactly 25 break commands, the
\* handle is closed and the outcome is SyncFailed.
GivesUpAfterAll ==
  RecoveredAttempts = {} =>
    (Cardinality(BreakCalls) = BreakTries /\ halt = "SyncFailed" /\ Port = 0)

\* C17 (as stated): DwBreakAndSync ends after at most 25 break commands; it
\* returns successfully at the first attempt whose break is accepted and
\* whose read-back yields at least 18 bytes, and otherwise closes the handle
\* with SyncFailed after exactly 25.
C17_ReturnsAtFirstRecovered ==
  BrokeAndSynced =>
    /\ BreaksCounted
    /\ GivesUpAfterAll
    /\ RecoveredAttempts # {} =>
         /\ RecoveredAttempts = {Cardinality(BreakCalls) - 1}
         /\ halt = ""
         /\ Port # 0

\* C17 (amended): as stated, except that the first recovered attempt also
\* has to get its bit time accepted by the adapter: when the mode-2 transfer
\* returns a negative status, DwBreakAndSync closes the handle and ends the
\* process at once with the baud-rate failure, without further attempts.
C17_ReturnsUnlessTimingRejected ==
  BrokeAndSynced =>
    /\ BreaksCounted
    /\ GivesUpAfterAll
    /\ RecoveredAttempts # {} =>
         /\ RecoveredAttempts = {Cardinality(BreakCalls) - 1}
         /\ Cardinality(TimingCalls) = 1
         /\ \A i \in TimingCalls :
              IF usb[i].status >= 0 THEN halt = "" /\ Port # 0
              ELSE halt = "BaudFailed" /\ Port = 0

\* C17 witness: the 25th break attempt is the first the adapter accepts, and
\* DwBreakAndSync returns.
C17_RecoveredAtLastAttempt ==
  /\ op.name = "DwBreakAndSync"
  /\ halt = ""
  /\ Cardinality(BreakCalls) = BreakTries
  /\ RecoveredAttempts = {BreakTries - 1}

(***************************************************************************)
(* Reconnect                                                               *)
(***************************************************************************)

\* The word DwReconnect read in reply to F0: the target's word when both
\* bytes arrived, its high byte alone when one arrived, zero when the read
\* returned nothing.
WordReturned ==
  LET got == { i \in ReceiveAttempts : usb[i].status > 0 }
      first == CHOOSE i \in got : \A j \in got : i <= j
  IN  IF got = {} THEN 0
      ELSE IF usb[first].status >= 2 THEN op.a
      ELSE 256 * (op.a \div 256)

\* C18: after DwReconnect, for every word w returned in reply to F0, zero
\* included, PC = (2*(w-1)) mod FlashSize and 0 <= PC < FlashSize.
C18_PCWithinFlash ==
  (op.name = "DwReconnect" /\ halt = "") =>
    /\ PC = (2 * (WordReturned - 1)) % device.flashSize
    /\ 0 <= PC
    /\ PC < device.flashSize

(***************************************************************************)
(* Reached breakpoint                                                      *)
(***************************************************************************)

\* dwReachedBreakpoint ran to its return.
AskedBreakpoint == op.name = "dwReachedBreakpoint" /\ halt = ""

\* C19: dwReachedBreakpoint reports true only when its mode-0 IN transfer
\* returned at least one byte and the first returned byte is non-zero; when
\* the transfer fails or returns no byte it reports false, whatever its
\* scratch buffer held before.
C19_TrueOnlyOnReturnedByte ==
  AskedBreakpoint =>
    /\ res.ret = 1 => (res.status >= 1 /\ res.rx[1] # 0)
    /\ res.status <= 0 => res.ret = 0

(***************************************************************************)
(* The USB handle                                                          *)
(***************************************************************************)

\* C20: no USB control transfer is issued while the handle is null: from a
\* fresh session, each transfer of a public operation is preceded by a
\* successful ConnectPort, and an operation entered with a null handle
\* issues the mode-33 break before any byte transport.
C20_NoTransferOnNullHandle ==
  /\ halt # "Crashed"
  /\ \A i \in 1..Len(usb) : usb[i].port # 0
  /\ (op.pre.Port = 0 /\ usb # <<>>) =>
       (usb[1].dir = "OUT" /\ usb[1].value = ModeBreak)

====
